---- MODULE Spec2Model ----
(***************************************************************************)
(* A model of the rocking stand controller (src/stand.c) and of the sine   *)
(* experiments (src/experiments/sin11.c).                                  *)
(*                                                                         *)
(* Three specifications share the definitions below:                       *)
(*   SpecFn   applies the pure functions (sq8_bit, sq8_imul, sq8, sin8,    *)
(*            sinu8 and the pulse-width expression of loop()) to inputs    *)
(*            drawn in Init; sq8_bit runs one do-while iteration per step. *)
(*   Spec     is the control program from reset: setup(), then loop()      *)
(*            forever, against the ADC hardware, with history variables.   *)
(*   LiveSpec is the same program with the fairness of a running CPU and   *)
(*            of an ADC whose conversions end.                             *)
(* Integers have the widths of the AVR build: int is 16 bits, and the      *)
(* conversions to int8_t / uint8_t / uint16_t wrap as gcc defines them.    *)
(***************************************************************************)
EXTENDS Integers, Sequences, FiniteSets, TLC

VARIABLES
    angle,      \* stand.c: uint16_t angle, the phase accumulator
    ADMUX,      \* ADC multiplexer register: [MUX |-> 0..3, ADLAR |-> 0..1]
    ADCSRA,     \* ADC control/status register: [ADEN |-> 0..1, ADSC |-> 0..1]
    ADC,        \* the 10-bit ADC data register (read through ADCL / ADCH)
    DDRB,       \* data direction of PB0
    PORTB,      \* output level of PB0
    pc,         \* position of the program: [stage |-> ..., ch |-> 0..3]
    p1, p2, p3, \* loop(): the three potentiometer samples
    pw,         \* loop(): the pulse width
    width,      \* send_pulse(): the busy-loop count
    convch,     \* ADC hardware: the channel latched when the conversion began
    hist,       \* history: the events of the current iteration, in order
    n,          \* history: iterations whose phase advance has been done
    sum,        \* history: the sum of the speed samples of those iterations
    ks,         \* history: the set of the speed samples of those iterations
    t_in,       \* function harness: the inputs [x, p1, p3]
    t_pc,       \* function harness: position
    bitv,       \* sq8_bit(): its locals [x, out, cf, w, count]
    t_out       \* function harness: the results

vars == << angle, ADMUX, ADCSRA, ADC, DDRB, PORTB, pc, p1, p2, p3, pw, width,
           convch, hist, n, sum, ks, t_in, t_pc, bitv, t_out >>

progVars == << angle, ADMUX, ADCSRA, ADC, DDRB, PORTB, pc, p1, p2, p3, pw,
               width, convch, hist, n, sum, ks >>

fnVars == << t_in, t_pc, bitv, t_out >>

-----------------------------------------------------------------------------
(* Fixed-width integer arithmetic.                                         *)

\* conversion to uint8_t
U8(v) == v % 256

\* conversion to int8_t (two's complement wrap)
I8(v) == IF (v % 256) >= 128 THEN (v % 256) - 256 ELSE v % 256

\* conversion to uint16_t
U16(v) == v % 65536

\* conversion to int16_t (two's complement wrap)
I16(v) == IF (v % 65536) >= 32768 THEN (v % 65536) - 65536 ELSE v % 65536

\* ~v on 8 bits
Not8(v) == 255 - (v % 256)

\* v >> k, arithmetic (rounds towards minus infinity)
Asr(v, k) == v \div (2 ^ k)

\* v << k
Shl(v, k) == v * (2 ^ k)

\* bit k of v
Bit(v, k) == (v \div (2 ^ k)) % 2

-----------------------------------------------------------------------------
(* The sine approximation of stand.c.                                      *)

\* sq8 without the final complement
sq8_nocompl(x) ==
    LET x1 == I8(x + 128)
        x2 == I8(Asr(x1 * x1, 7))
    IN  U8(x2)

\* uint8_t sq8(int8_t x): x += 128; x = ((int16_t)x * x) >> 7; return ~x;
sq8(x) ==
    LET x1 == I8(x + 128)
        x2 == I8(Asr(x1 * x1, 7))
    IN  Not8(x2)

\* sin8 that forgets to complement the second half-wave
sin8_nohalf(a) == I8(sq8(I8(Shl(a, 1))) + 128)

\* int8_t sin8(uint8_t angle)
sin8(a) ==
    LET ret0 == sq8(I8(Shl(a, 1)))
        ret  == IF Bit(a, 7) = 1 THEN Not8(ret0) ELSE ret0
    IN  I8(ret + 128)

-----------------------------------------------------------------------------
(* The functions of experiments/sin11.c.                                   *)

\* uint8_t sq8_imul(signed char x)
sq8_imul(x) ==
    LET x1 == I8(x + 128)
        x2 == I8(Asr(x1 * x1, 7))
    IN  Not8(x2)

\* sq8_bit(): the locals on entry, before the do-while
sq8_bit_entry(x) ==
    [x |-> U8(x), out |-> 0, cf |-> 0, w |-> Not8(x), count |-> 8]

\* sq8_bit(): one pass of the do-while body and the --count that ends it
sq8_bit_iter(s) ==
    LET out1 == U8(Shl(s.cf, 7) + Asr(s.out, 1))
        out2 == IF s.x % 2 = 1 THEN U8(out1 + s.w) ELSE out1
        cf2  == IF s.x % 2 = 1 THEN (IF out2 < s.w THEN 1 ELSE 0) ELSE s.cf
    IN  [x |-> Asr(s.x, 1), out |-> out2, cf |-> cf2, w |-> s.w,
         count |-> U8(s.count - 1)]

\* sq8_bit(): return out + 128
sq8_bit_result(s) == U8(s.out + 128)

\* sinu8 that returns the same branch for both half-waves
sinu8_nohalf(a) == sq8_imul(I8(Shl(a, 1)))

\* uint8_t sinu8(uint8_t angle), with sq8 defined as sq8_imul
sinu8(a) ==
    IF Bit(a, 7) = 1 THEN Not8(sq8_imul(I8(Shl(a, 1))))
                     ELSE sq8_imul(I8(Shl(a, 1)))

\* int8_t sin8(uint8_t angle) of sin11.c, with sq8 defined as sq8_imul
sin11_sin8(a) ==
    LET ret0 == sq8_imul(I8(Shl(a, 1)))
        ret  == IF Bit(a, 7) = 1 THEN Not8(ret0) ELSE ret0
    IN  I8(ret + 128)

-----------------------------------------------------------------------------
(* Timing and the pulse width of stand.c.                                  *)

\* the CPU frequency in Hz (ATtiny13A)
F_CPU == 9600000

\* uint16_t us2loops(uint16_t us)
us2loops(us) == U16(((us * (F_CPU \div 100000)) \div 50) + 1)

\* the pulse width with the sine term shifted by 5 instead of 6
PulseWidth_shift5(o, a, ang) ==
    U16(1500 + Shl(I16(o - 512), 1) + Asr(I16(sin8(Asr(ang, 8))) * a, 5))

\* loop(): pw = 1500 + ((int16_t)(p1 - 512) << 1)
\*                   + (((int16_t)sin8(angle >> 8) * p3) >> 6), stored in uint16_t
\* (gcc shifts a negative int left as a multiplication and right
\* arithmetically; neither term leaves the 16 bits of an AVR int)
PulseWidth(o, a, ang) ==
    U16(1500 + Shl(I16(o - 512), 1) + Asr(I16(sin8(Asr(ang, 8))) * a, 6))

\* the phase advance that saturates instead of wrapping
AngleStep_saturate(ang, s) ==
    IF ang + Shl(s, 2) > 65535 THEN 65535 ELSE ang + Shl(s, 2)

\* loop(): angle += (uint16_t)p2 << 2
AngleStep(ang, s) == U16(ang + U16(Shl(U16(s), 2)))

-----------------------------------------------------------------------------
(* The function harness: each function applied to inputs drawn in Init.    *)

\* offset samples the harness draws (10-bit)
FnOffsets == {0, 1, 511, 512, 513, 1023}

\* amplitude samples the harness draws (8-bit)
FnAmps == {0, 1, 128, 255}

\* the harness at rest (the specifications of the control program)
FnIdleIn == [x |-> 0, p1 |-> 0, p3 |-> 0]

FnIdleBitv == [x |-> 0, out |-> 0, cf |-> 0, w |-> 0, count |-> 0]

FnIdleOut ==
    [imul |-> 0, bit |-> 0, sin8 |-> 0, sin11 |-> 0, sinu8 |-> 0, pw |-> 0]

\* the control program switched off (the specification of the functions)
ProgOff == [stage |-> "off", ch |-> 0]

InitFn ==
    /\ t_in \in [x : 0..255, p1 : FnOffsets, p3 : FnAmps]
    /\ t_pc = "imul"
    /\ bitv = FnIdleBitv
    /\ t_out = FnIdleOut
    /\ angle = 0
    /\ ADMUX = [MUX |-> 0, ADLAR |-> 0]
    /\ ADCSRA = [ADEN |-> 0, ADSC |-> 0]
    /\ ADC = 0
    /\ DDRB = 0
    /\ PORTB = 0
    /\ pc = ProgOff
    /\ p1 = 0 /\ p2 = 0 /\ p3 = 0 /\ pw = 0 /\ width = 0
    /\ convch = 0
    /\ hist = << >>
    /\ n = 0
    /\ sum = 0
    /\ ks = {}

CallSq8Imul ==
    /\ t_pc = "imul"
    /\ t_out' = [t_out EXCEPT !.imul = sq8_imul(I8(t_in.x))]
    /\ t_pc' = "bit_entry"
    /\ UNCHANGED << t_in, bitv, progVars >>

Sq8BitEntry ==
    /\ t_pc = "bit_entry"
    /\ bitv' = sq8_bit_entry(t_in.x)
    /\ t_pc' = "bit_loop"
    /\ UNCHANGED << t_in, t_out, progVars >>

Sq8BitIter ==
    /\ t_pc = "bit_loop"
    /\ bitv' = sq8_bit_iter(bitv)
    /\ t_pc' = IF bitv'.count # 0 THEN "bit_loop" ELSE "bit_ret"
    /\ UNCHANGED << t_in, t_out, progVars >>

Sq8BitReturn ==
    /\ t_pc = "bit_ret"
    /\ t_out' = [t_out EXCEPT !.bit = sq8_bit_result(bitv)]
    /\ t_pc' = "sin8"
    /\ UNCHANGED << t_in, bitv, progVars >>

CallSin8 ==
    /\ t_pc = "sin8"
    /\ t_out' = [t_out EXCEPT !.sin8 = sin8(t_in.x)]
    /\ t_pc' = "sin11"
    /\ UNCHANGED << t_in, bitv, progVars >>

CallSin11Sin8 ==
    /\ t_pc = "sin11"
    /\ t_out' = [t_out EXCEPT !.sin11 = sin11_sin8(t_in.x)]
    /\ t_pc' = "sinu8"
    /\ UNCHANGED << t_in, bitv, progVars >>

CallSinu8 ==
    /\ t_pc = "sinu8"
    /\ t_out' = [t_out EXCEPT !.sinu8 = sinu8(t_in.x)]
    /\ t_pc' = "pw"
    /\ UNCHANGED << t_in, bitv, progVars >>

CallPulseWidth ==
    /\ t_pc = "pw"
    /\ t_out' = [t_out EXCEPT !.pw = PulseWidth(t_in.p1, t_in.p3, Shl(t_in.x, 8))]
    /\ t_pc' = "done"
    /\ UNCHANGED << t_in, bitv, progVars >>

FnNext ==
    \/ CallSq8Imul
    \/ Sq8BitEntry
    \/ Sq8BitIter
    \/ Sq8BitReturn
    \/ CallSin8
    \/ CallSin11Sin8
    \/ CallSinu8
    \/ CallPulseWidth

SpecFn == InitFn /\ [][FnNext]_vars

-----------------------------------------------------------------------------
(* The control program of stand.c and the ADC it drives.                   *)

\* iterations of loop() the history variables n and sum follow
MaxIter == 17

\* the positions of the three potentiometers, as 10-bit conversion results
\* (channel 0 is the unused RESET pin)
Pots == [ch \in 0..3 |-> IF ch = 0 THEN {0} ELSE {0, 512, 1023}]

\* the same, with the speed potentiometer at rest or mid-course
LivePots == [ch \in 0..3 |-> IF ch = 0 THEN {0}
                             ELSE IF ch = 2 THEN {0, 512} ELSE {0, 512, 1023}]

Stage(st, c) == [stage |-> st, ch |-> c]

Event(e, c, v) == [ev |-> e, ch |-> c, val |-> v]

\* set_adc_channel(ch): the MUX1:MUX0 bits replaced, the other bits kept
set_adc_channel(m, c) ==
    IF c \in 0..3 THEN [m EXCEPT !.MUX = c] ELSE m

\* start_adc(): ADCSRA |= _BV(ADSC)
start_adc(r) == [r EXCEPT !.ADSC = 1]

\* a read that does not wait for the conversion
ConversionReady_nowait(r) == TRUE

\* the exit condition of while (ADCSRA & _BV(ADSC)) ;
ConversionReady(r) == r.ADSC = 0

\* read_adc() that leaves the alignment as it finds it
AlignRight_keep(m) == m

\* read_adc(): ADMUX &= ~_BV(ADLAR)
AlignRight(m) == [m EXCEPT !.ADLAR = 0]

\* read_adch(): ADMUX |= _BV(ADLAR)
AlignLeft(m) == [m EXCEPT !.ADLAR = 1]

\* the high byte of the data register, as ADLAR presents it
ADCH(d, m) == IF m.ADLAR = 1 THEN Asr(d, 2) ELSE Asr(d, 8)

\* the low byte of the data register, as ADLAR presents it
ADCL(d, m) == IF m.ADLAR = 1 THEN U8(Shl(d % 4, 6)) ELSE U8(d)

\* read_adc(): return ADCL + ((uint16_t)ADCH << 8)
read_adc(d, m) == U16(ADCL(d, m) + U16(Shl(ADCH(d, m), 8)))

\* read_adch(): return ADCH
read_adch(d, m) == U8(ADCH(d, m))

Init ==
    /\ angle = 0
    /\ ADMUX = [MUX |-> 0, ADLAR |-> 0]
    /\ ADCSRA = [ADEN |-> 0, ADSC |-> 0]
    /\ ADC = 0
    /\ DDRB = 0
    /\ PORTB = 0
    /\ pc = Stage("setup", 0)
    /\ p1 = 0 /\ p2 = 0 /\ p3 = 0 /\ pw = 0 /\ width = 0
    /\ convch = 0
    /\ hist = << >>
    /\ n = 0
    /\ sum = 0
    /\ ks = {}
    /\ t_in = FnIdleIn
    /\ t_pc = "off"
    /\ bitv = FnIdleBitv
    /\ t_out = FnIdleOut

\* setup(): PB0 an output, the ADC enabled, ADMUX = 0
Setup ==
    /\ pc = Stage("setup", 0)
    /\ DDRB' = 1
    /\ ADCSRA' = [ADEN |-> 1, ADSC |-> 0]
    /\ ADMUX' = [MUX |-> 0, ADLAR |-> 0]
    /\ pc' = Stage("entry", 0)
    /\ UNCHANGED << angle, ADC, PORTB, p1, p2, p3, pw, width, convch, hist,
                    n, sum, ks, fnVars >>

\* loop(): p1 = 0; p2 = 0; p3 = 0;
LoopEntry ==
    /\ pc = Stage("entry", 0)
    /\ p1' = 0 /\ p2' = 0 /\ p3' = 0
    /\ hist' = << >>
    /\ pc' = Stage("sel", 1)
    /\ UNCHANGED << angle, ADMUX, ADCSRA, ADC, DDRB, PORTB, pw, width, convch,
                    n, sum, ks, fnVars >>

\* loop(): set_adc_channel(1), (2), (3)
SetAdcChannel ==
    /\ pc.stage = "sel"
    /\ ADMUX' = set_adc_channel(ADMUX, pc.ch)
    /\ hist' = Append(hist, Event("sel", ADMUX'.MUX, 0))
    /\ pc' = Stage("start", pc.ch)
    /\ UNCHANGED << angle, ADCSRA, ADC, DDRB, PORTB, p1, p2, p3, pw, width,
                    convch, n, sum, ks, fnVars >>

\* loop(): start_adc(); the ADC latches the selected channel as it starts
StartAdc ==
    /\ pc.stage = "start"
    /\ ADCSRA' = start_adc(ADCSRA)
    /\ convch' = IF ADCSRA.ADSC = 0 THEN ADMUX.MUX ELSE convch
    /\ hist' = Append(hist, Event("start", ADMUX.MUX, ADCSRA.ADSC))
    /\ pc' = Stage("delay", pc.ch)
    /\ UNCHANGED << angle, ADMUX, ADC, DDRB, PORTB, p1, p2, p3, pw, width,
                    n, sum, ks, fnVars >>

\* loop(): delay_us(6000), a busy loop that counts us2loops(6000) down to
\* zero and so always ends
DelayUs ==
    /\ pc.stage = "delay"
    /\ pc' = Stage("read", pc.ch)
    /\ UNCHANGED << angle, ADMUX, ADCSRA, ADC, DDRB, PORTB, p1, p2, p3, pw,
                    width, convch, hist, n, sum, ks, fnVars >>

\* loop(): p1 = read_adc(); p2 = read_adc();
ReadAdc ==
    /\ pc.stage = "read"
    /\ pc.ch \in {1, 2}
    /\ ConversionReady(ADCSRA)
    /\ ADMUX' = AlignRight(ADMUX)
    /\ p1' = IF pc.ch = 1 THEN read_adc(ADC, ADMUX') ELSE p1
    /\ p2' = IF pc.ch = 2 THEN read_adc(ADC, ADMUX') ELSE p2
    /\ hist' = Append(hist, Event("read10", convch, read_adc(ADC, ADMUX')))
    /\ pc' = Stage("sel", pc.ch + 1)
    /\ UNCHANGED << angle, ADCSRA, ADC, DDRB, PORTB, p3, pw, width, convch,
                    n, sum, ks, fnVars >>

\* loop(): p3 = read_adch();
ReadAdch ==
    /\ pc = Stage("read", 3)
    /\ ConversionReady(ADCSRA)
    /\ ADMUX' = AlignLeft(ADMUX)
    /\ p3' = read_adch(ADC, ADMUX')
    /\ hist' = Append(hist, Event("read8", convch, read_adch(ADC, ADMUX')))
    /\ pc' = Stage("compute", 0)
    /\ UNCHANGED << angle, ADCSRA, ADC, DDRB, PORTB, p1, p2, pw, width, convch,
                    n, sum, ks, fnVars >>

\* loop(): pw = 1500 + ...
ComputePw ==
    /\ pc = Stage("compute", 0)
    /\ pw' = PulseWidth(p1, p3, angle)
    /\ pc' = Stage("advance", 0)
    /\ UNCHANGED << angle, ADMUX, ADCSRA, ADC, DDRB, PORTB, p1, p2, p3, width,
                    convch, hist, n, sum, ks, fnVars >>

\* loop(): angle += (uint16_t)p2 << 2
AdvanceAngle ==
    /\ pc = Stage("advance", 0)
    /\ angle' = AngleStep(angle, p2)
    /\ pc' = Stage("pulse_hi", 0)
    /\ UNCHANGED << ADMUX, ADCSRA, ADC, DDRB, PORTB, p1, p2, p3, pw, width,
                    convch, hist, fnVars >>

\* the advance, followed by the history variables, for MaxIter iterations
AdvanceCounted ==
    /\ n < MaxIter
    /\ AdvanceAngle
    /\ n' = n + 1
    /\ sum' = sum + p2
    /\ ks' = ks \cup {p2}

\* the advance of the program alone
AdvanceFree ==
    /\ AdvanceAngle
    /\ UNCHANGED << n, sum, ks >>

\* send_pulse(): width = us2loops(width); PORTB |= _BV(port);
SendPulseHigh ==
    /\ pc = Stage("pulse_hi", 0)
    /\ width' = us2loops(pw)
    /\ PORTB' = 1
    /\ hist' = Append(hist, Event("high", 0, 0))
    /\ pc' = Stage("pulse_lo", 0)
    /\ UNCHANGED << angle, ADMUX, ADCSRA, ADC, DDRB, p1, p2, p3, pw, convch,
                    n, sum, ks, fnVars >>

\* send_pulse() that returns with the line still high
SendPulseLow_stuck ==
    /\ pc = Stage("pulse_lo", 0)
    /\ PORTB' = PORTB
    /\ hist' = Append(hist, Event("low", 0, 0))
    /\ p1' = 0 /\ p2' = 0 /\ p3' = 0 /\ pw' = 0 /\ width' = 0
    /\ pc' = Stage("entry", 0)
    /\ UNCHANGED << angle, ADMUX, ADCSRA, ADC, DDRB, convch, n, sum, ks, fnVars >>

\* send_pulse(): while (--width) ; PORTB &= ~_BV(port); then loop() returns,
\* its locals end with it, and main() calls it again
SendPulseLow ==
    /\ pc = Stage("pulse_lo", 0)
    /\ PORTB' = 0
    /\ hist' = Append(hist, Event("low", 0, 0))
    /\ p1' = 0 /\ p2' = 0 /\ p3' = 0 /\ pw' = 0 /\ width' = 0
    /\ pc' = Stage("entry", 0)
    /\ UNCHANGED << angle, ADMUX, ADCSRA, ADC, DDRB, convch, n, sum, ks, fnVars >>

\* the ADC ends the conversion it was started on: the result is latched in
\* the data register and ADSC reads as zero
AdcEnds(pots) ==
    /\ ADCSRA.ADEN = 1
    /\ ADCSRA.ADSC = 1
    /\ \E r \in pots[convch] :
         /\ ADC' = r
         /\ hist' = Append(hist, Event("done", convch, r))
    /\ ADCSRA' = [ADCSRA EXCEPT !.ADSC = 0]
    /\ UNCHANGED << angle, ADMUX, DDRB, PORTB, pc, p1, p2, p3, pw, width,
                    convch, n, sum, ks, fnVars >>

Next ==
    \/ Setup
    \/ LoopEntry
    \/ SetAdcChannel
    \/ StartAdc
    \/ DelayUs
    \/ ReadAdc
    \/ ReadAdch
    \/ ComputePw
    \/ AdvanceCounted
    \/ SendPulseHigh
    \/ SendPulseLow
    \/ AdcEnds(Pots)

Spec == Init /\ [][Next]_vars

\* the steps of the program: main() runs loop() forever
ProgStep ==
    \/ Setup
    \/ LoopEntry
    \/ SetAdcChannel
    \/ StartAdc
    \/ DelayUs
    \/ ReadAdc
    \/ ReadAdch
    \/ ComputePw
    \/ AdvanceFree
    \/ SendPulseHigh
    \/ SendPulseLow

LiveNext ==
    \/ ProgStep
    \/ AdcEnds(LivePots)

\* the program with the one fairness its scheduling gives: the CPU always
\* executes the next instruction (whether a started conversion ends is the
\* ADC's affair, and is assumed where a claim assumes it)
LiveSpec ==
    /\ Init
    /\ [][LiveNext]_vars
    /\ WF_vars(ProgStep)

-----------------------------------------------------------------------------
(* Claims about the functions, checked under SpecFn.                       *)

Abs(v) == IF v < 0 THEN -v ELSE v

\* the harness has applied every function to its inputs
FnDone == t_pc = "done"

\* C1: for each of the 256 inputs x, sq8_bit(x) returns the same 8-bit
\* result as sq8_imul(x).
C1_BitEqualsImul == FnDone => t_out.bit = t_out.imul

\* the pulse width as the integer the expression denotes, before it is stored
TrueSum(o, a, x) == 1500 + 2 * (o - 512) + Asr(sin8(x) * a, 6)

\* C2: for every offset sample, amplitude sample and phase, the pulse width
\* stored in the unsigned 16-bit pw equals the true integer sum (no overflow,
\* no wraparound).
C2_NoWrapAnyInput ==
    FnDone => t_out.pw = TrueSum(t_in.p1, t_in.p3, t_in.x)

\* C3 as stated: sin8(0) = 0, sin8(64) = 127, sin8(128) = 0 and sin8(192) is
\* -127 or -128.
C3_LandmarksAsStated ==
    FnDone =>
        /\ (t_in.x = 0 => t_out.sin8 = 0 /\ t_out.sin11 = 0)
        /\ (t_in.x = 64 => t_out.sin8 = 127 /\ t_out.sin11 = 127)
        /\ (t_in.x = 128 => t_out.sin8 = 0 /\ t_out.sin11 = 0)
        /\ (t_in.x = 192 => t_out.sin8 \in {-127, -128}
                            /\ t_out.sin11 \in {-127, -128})

\* C3, amended: sin8(0) = -1 (one step below zero), sin8(64) = 127,
\* sin8(128) = 0 and sin8(192) is -127 or -128, in stand.c and in sin11.c
\* alike.
C3_Landmarks ==
    FnDone =>
        /\ (t_in.x = 0 => t_out.sin8 = -1 /\ t_out.sin11 = -1)
        /\ (t_in.x = 64 => t_out.sin8 = 127 /\ t_out.sin11 = 127)
        /\ (t_in.x = 128 => t_out.sin8 = 0 /\ t_out.sin11 = 0)
        /\ (t_in.x = 192 => t_out.sin8 \in {-127, -128}
                            /\ t_out.sin11 \in {-127, -128})

C3_Witness == FnDone /\ t_in.x = 0 /\ t_out.sin8 = -1 /\ t_out.sin11 = -1

\* the reference table of the true sine: 128000 * sin(a * pi / 128), rounded
\* to the nearest integer, for a = 0..255 (entry a + 1)
SinRef ==
    << 0, 3141, 6281, 9416, 12546, 15669, 18782, 21883,
       24972, 28045, 31101, 34139, 37156, 40151, 43122, 46067,
       48983, 51871, 54727, 57550, 60339, 63091, 65805, 68480,
       71113, 73703, 76250, 78750, 81202, 83606, 85960, 88261,
       90510, 92704, 94842, 96923, 98945, 100908, 102811, 104651,
       106428, 108141, 109789, 111371, 112886, 114333, 115711, 117019,
       118257, 119423, 120518, 121540, 122488, 123363, 124164, 124890,
       125541, 126116, 126615, 127037, 127384, 127653, 127846, 127961,
       128000, 127961, 127846, 127653, 127384, 127037, 126615, 126116,
       125541, 124890, 124164, 123363, 122488, 121540, 120518, 119423,
       118257, 117019, 115711, 114333, 112886, 111371, 109789, 108141,
       106428, 104651, 102811, 100908, 98945, 96923, 94842, 92704,
       90510, 88261, 85960, 83606, 81202, 78750, 76250, 73703,
       71113, 68480, 65805, 63091, 60339, 57550, 54727, 51871,
       48983, 46067, 43122, 40151, 37156, 34139, 31101, 28045,
       24972, 21883, 18782, 15669, 12546, 9416, 6281, 3141,
       0, -3141, -6281, -9416, -12546, -15669, -18782, -21883,
       -24972, -28045, -31101, -34139, -37156, -40151, -43122, -46067,
       -48983, -51871, -54727, -57550, -60339, -63091, -65805, -68480,
       -71113, -73703, -76250, -78750, -81202, -83606, -85960, -88261,
       -90510, -92704, -94842, -96923, -98945, -100908, -102811, -104651,
       -106428, -108141, -109789, -111371, -112886, -114333, -115711, -117019,
       -118257, -119423, -120518, -121540, -122488, -123363, -124164, -124890,
       -125541, -126116, -126615, -127037, -127384, -127653, -127846, -127961,
       -128000, -127961, -127846, -127653, -127384, -127037, -126615, -126116,
       -125541, -124890, -124164, -123363, -122488, -121540, -120518, -119423,
       -118257, -117019, -115711, -114333, -112886, -111371, -109789, -108141,
       -106428, -104651, -102811, -100908, -98945, -96923, -94842, -92704,
       -90510, -88261, -85960, -83606, -81202, -78750, -76250, -73703,
       -71113, -68480, -65805, -63091, -60339, -57550, -54727, -51871,
       -48983, -46067, -43122, -40151, -37156, -34139, -31101, -28045,
       -24972, -21883, -18782, -15669, -12546, -9416, -6281, -3141 >>

\* the distance of sin8(a) from the true sine, in thousandths of a step
SinErr(a, v) == Abs(1000 * v - SinRef[a + 1])

C5_MidOffsetMaxAmplitude ==
    (FnDone /\ t_in.p1 = 512 /\ t_in.p3 = 255) =>
        /\ t_out.pw = TrueSum(512, 255, t_in.x)
        /\ t_out.pw >= 1500 - 510
        /\ t_out.pw <= 1500 + 508
        /\ (t_in.x = 64 => t_out.pw = 1500 + Asr(127 * 255, 6)
                           /\ t_out.pw = 2006)

C5_Witness ==
    /\ FnDone
    /\ t_in.p1 = 512
    /\ t_in.p3 = 255
    /\ t_in.x = 64
    /\ t_out.sin8 = 127
    /\ t_out.pw = 2006

\* C6: for every 8-bit angle a, sinu8(a) equals (sin8(a) + 128) modulo 256.
C6_SinuIsSinPlus128 == FnDone => t_out.sinu8 = (t_out.sin11 + 128) % 256

C6_Witness ==
    /\ FnDone
    /\ t_in.x >= 128
    /\ t_out.sin11 < -100
    /\ t_out.sinu8 = t_out.sin11 + 128

-----------------------------------------------------------------------------
(* Claims about the control program, checked under Spec and LiveSpec.      *)

\* C7: the phase accumulator starts at 0 and after any n iterations equals
\* (4 * (s_1 + ... + s_n)) mod 65536; when every speed sample was the same
\* s, that is one advance by ((4 * s) * n) mod 65536.
C7_PhaseIsSumOfSpeeds ==
    /\ n = 0 => angle = 0
    /\ angle = (4 * sum) % 65536
    /\ \A s \in ks : ks = {s} => angle = (0 + (((4 * s) * n) % 65536)) % 65536

C7_Witness ==
    /\ n = MaxIter
    /\ 4 * sum >= 65536
    /\ ks = {1023}
    /\ angle = (4 * sum) % 65536

\* the events of one iteration, in the order loop() is to produce them
ExpectedTrace ==
    << << "sel", 1 >>, << "start", 1 >>, << "done", 1 >>, << "read10", 1 >>,
       << "sel", 2 >>, << "start", 2 >>, << "done", 2 >>, << "read10", 2 >>,
       << "sel", 3 >>, << "start", 3 >>, << "done", 3 >>, << "read8", 3 >>,
       << "high", 0 >>, << "low", 0 >> >>

\* C8: in every iteration the samples are acquired in the order offset
\* (channel 1, 10-bit), speed (channel 2, 10-bit), amplitude (channel 3,
\* 8-bit); each channel is selected before its conversion is started, no
\* conversion is started while another runs, and each result is read only
\* after its conversion has ended and before the next one is started.
C8_SamplingOrder ==
    /\ Len(hist) <= Len(ExpectedTrace)
    /\ \A i \in 1..Len(hist) :
         /\ << hist[i].ev, hist[i].ch >> = ExpectedTrace[i]
         /\ hist[i].ev = "start" => hist[i].val = 0
    /\ pc.stage \in {"compute", "advance", "pulse_hi"} => Len(hist) = 12
    /\ (pc.stage = "read" /\ ADCSRA.ADSC = 0) =>
           /\ hist[Len(hist)].ev = "done"
           /\ hist[Len(hist)].ch = pc.ch
           /\ ADMUX.MUX = pc.ch

C8_Witness ==
    /\ pc.stage = "compute"
    /\ n >= 1
    /\ Len(hist) = 12
    /\ hist[12].ev = "read8"
    /\ p1 = 512 /\ p2 = 1023 /\ p3 = 255

\* the history of a finished iteration holds one pulse: high, then low
OnePulse ==
    /\ Cardinality({i \in 1..Len(hist) : hist[i].ev = "high"}) = 1
    /\ Cardinality({i \in 1..Len(hist) : hist[i].ev = "low"}) = 1
    /\ hist[Len(hist) - 1].ev = "high"
    /\ hist[Len(hist)].ev = "low"

\* every started conversion eventually ends
ConversionsEnd == [](ADCSRA.ADSC = 1 => <>(ADCSRA.ADSC = 0))

\* the program is at a wait on the ADC and the output line is low
WaitingOnAdc == pc.stage \in {"delay", "read"} /\ PORTB = 0

\* C9: the loop has no terminal state and no timeout; when every started
\* conversion eventually ends, the output line is driven high and then low
\* infinitely often, one pulse per iteration; when a conversion never ends,
\* the loop waits on it forever and emits no further pulse; and while a
\* conversion has not ended the program does not pass its read.
C9_PulsesForever ==
    /\ ConversionsEnd => ([]<>(PORTB = 1) /\ []<>(PORTB = 0))
    /\ <>[](ADCSRA.ADSC = 1) => <>[]WaitingOnAdc
    /\ []((pc.stage = "entry" /\ hist # << >>) => OnePulse)
    /\ [](ENABLED LiveNext)
    /\ [][(pc.stage = "read" /\ ADCSRA.ADSC = 1)
             => (pc' = pc /\ PORTB' = PORTB)]_vars

C9_Witness ==
    /\ pc = Stage("pulse_lo", 0)
    /\ PORTB = 1
    /\ angle = 32768
    /\ width = us2loops(pw)

\* the result the ADC delivered for channel c in the current iteration
Delivered(c) ==
    LET S == {i \in 1..Len(hist) : hist[i].ev = "done" /\ hist[i].ch = c}
    IN  hist[CHOOSE i \in S : TRUE].val

\* C10: the pulse width of an iteration is a function of that iteration's
\* offset and amplitude samples and of the phase before the advance, and of
\* nothing an earlier iteration left behind; each read returns the sample
\* the ADC delivered, whatever alignment the previous read left in ADMUX.
C10_PulseWidthFromSamplesAndPhase ==
    /\ pc.stage \in {"advance", "pulse_hi", "pulse_lo"} =>
           /\ p1 = Delivered(1)
           /\ p2 = Delivered(2)
           /\ p3 = Asr(Delivered(3), 2)
    /\ pc.stage = "advance" =>
           pw = PulseWidth(Delivered(1), Asr(Delivered(3), 2), angle)
    /\ pc.stage \in {"pulse_hi", "pulse_lo"} =>
           pw = PulseWidth(Delivered(1), Asr(Delivered(3), 2),
                           (angle - 4 * Delivered(2)) % 65536)

C10_Witness ==
    /\ pc.stage = "advance"
    /\ n >= 1
    /\ Delivered(1) = 512
    /\ Delivered(3) = 1023
    /\ ADMUX.ADLAR = 1
    /\ pw = PulseWidth(512, 255, angle)

====
